---------------------------- MODULE Spec2Model ----------------------------
(***************************************************************************)
(* The blog CRUD application of crudjango/crudapp: the tables declared in  *)
(* models.py, the five views of views.py reached through urls.py, and the  *)
(* model forms the views validate with.                                    *)
(*                                                                         *)
(* A text value is represented by its length (two texts of different       *)
(* length are different texts), an e-mail address by its length and        *)
(* whether it is well formed, an uploaded file by whether it is an image.  *)
(* The text typed into an integer field is a sequence of characters.       *)
(***************************************************************************)
EXTENDS Integers, Sequences, FiniteSets

VARIABLES
    blogs,          \* table crudapp_blogpost: pk -> row
    comments,       \* table crudapp_comment: pk -> row
    persons,        \* table crudapp_persons: pk -> row
    nextBlogPk,     \* AUTOINCREMENT sequence of crudapp_blogpost
    nextCommentPk,  \* AUTOINCREMENT sequence of crudapp_comment
    nextPersonPk,   \* AUTOINCREMENT sequence of crudapp_persons
    clock,          \* the server's time, counted in the timestamps it has given
    resp,           \* the response on its way to the client, or Idle
    confirmed,      \* history: stored posts whose delete confirmation page was served
                    \* (recorded in SpecHistory only)
    deleted,        \* history: pks whose delete_blog POST has completed
    inflight        \* requests that have loaded their post and not yet answered

vars == <<blogs, comments, persons, nextBlogPk, nextCommentPk, nextPersonPk,
          clock, resp, confirmed, deleted, inflight>>

db == <<blogs, comments, persons, nextBlogPk, nextCommentPk, nextPersonPk>>

-----------------------------------------------------------------------------
(* Bounds of the model *)

\* Rows the model inserts, over all tables
MaxRows == 4

\* Requests that may have loaded their post and not yet answered
MaxInFlight == 1

-----------------------------------------------------------------------------
(* models.py: field constraints *)

TitleMaxLength == 200

AuthorMaxLength == 100

CommentNameMaxLength == 100

PersonNameMaxLength == 10

PersonEmailMaxLength == 20

\* Mutant: max_length is not enforced
CharFieldValid_no_max_length(len, max) == len > 0

\* CharField / TextField of a model form: required, and at most max_length long
\* (max == -1: no limit, a TextField).
CharFieldValid(len, max) == len > 0 /\ (max = -1 \/ len <= max)

\* EmailField: a required text that is a well-formed address within max_length
\* (the default max_length of EmailField is 254).
EmailFieldValid(e, max) == e.n > 0 /\ e.wellformed /\ e.n <= max

EmailDefaultMaxLength == 254

\* ImageField(blank=True, null=True): no upload is accepted, an upload must be an image.
ImageFieldValid(upload) == upload \in {"none", "image"}

Digits == <<"0", "1", "2", "3", "4", "5", "6", "7", "8", "9">>

IsDigit(c) == \E i \in 1..Len(Digits) : Digits[i] = c

DigitVal(c) == (CHOOSE i \in 1..Len(Digits) : Digits[i] = c) - 1

RECURSIVE DigitsVal(_)
DigitsVal(s) ==
    IF s = <<>> THEN 0
    ELSE 10 * DigitsVal(SubSeq(s, 1, Len(s) - 1)) + DigitVal(s[Len(s)])

\* IntegerField: the text must read as a decimal integer, with an optional sign.
IntegerFieldValid(text) ==
    LET body == IF text # <<>> /\ text[1] \in {"-", "+"} THEN Tail(text) ELSE text
    IN  body # <<>> /\ \A i \in 1..Len(body) : IsDigit(body[i])

IntegerFieldToPython(text) ==
    IF text[1] = "-" THEN 0 - DigitsVal(Tail(text))
    ELSE IF text[1] = "+" THEN DigitsVal(Tail(text))
    ELSE DigitsVal(text)

-----------------------------------------------------------------------------
(* forms: the errors a bound form collects, by field name *)

BlogPostForm_errors(data) ==
    {f \in {"title", "content", "author", "image"} :
        \/ f = "title" /\ ~CharFieldValid(data.title, TitleMaxLength)
        \/ f = "content" /\ ~CharFieldValid(data.content, -1)
        \/ f = "author" /\ ~CharFieldValid(data.author, AuthorMaxLength)
        \/ f = "image" /\ ~ImageFieldValid(data.image)}

BlogPostForm_is_valid(data) == BlogPostForm_errors(data) = {}

CommentForm_errors(data) ==
    {f \in {"name", "email", "content"} :
        \/ f = "name" /\ ~CharFieldValid(data.name, CommentNameMaxLength)
        \/ f = "email" /\ ~EmailFieldValid(data.email, EmailDefaultMaxLength)
        \/ f = "content" /\ ~CharFieldValid(data.content, -1)}

CommentForm_is_valid(data) == CommentForm_errors(data) = {}

PersonForm_errors(data) ==
    {f \in {"fname", "lname", "age", "email", "city"} :
        \/ f = "fname" /\ ~CharFieldValid(data.fname, PersonNameMaxLength)
        \/ f = "lname" /\ ~CharFieldValid(data.lname, PersonNameMaxLength)
        \/ f = "age" /\ ~IntegerFieldValid(data.age)
        \/ f = "email" /\ ~EmailFieldValid(data.email, PersonEmailMaxLength)
        \/ f = "city" /\ ~CharFieldValid(data.city, PersonNameMaxLength)}

PersonForm_is_valid(data) == PersonForm_errors(data) = {}

-----------------------------------------------------------------------------
(* Request inputs *)

\* <int:pk> of the routes: the pks that name a stored post or a deleted one,
\* and one that has named none yet.
PkInputs == 1..nextBlogPk

\* The rows inserted so far, over all tables: each INSERT of a post or a comment
\* takes a timestamp, a person has none
RowsInserted == clock + (nextPersonPk - 1)

\* A GET carries no form data
NoData == [k \in {} |-> 0]

\* A published_date a client puts into its form data: none the server assigns
ClientDate == MaxRows + 5

\* request.POST and request.FILES of a blog form submission: two that satisfy
\* every field constraint (the second at the length limits, with an upload), one
\* whose title is too long, one that fails every constraint.
BlogPostData ==
    { [title |-> 1, content |-> 1, author |-> 1, image |-> "none",
       published_date |-> ClientDate],
      [title |-> TitleMaxLength, content |-> 2, author |-> AuthorMaxLength,
       image |-> "image", published_date |-> ClientDate],
      [title |-> TitleMaxLength + 1, content |-> 1, author |-> 1, image |-> "none",
       published_date |-> ClientDate],
      [title |-> 0, content |-> 0, author |-> AuthorMaxLength + 1, image |-> "notimage",
       published_date |-> ClientDate] }

\* request.POST of a comment submission: one at the length limits, one whose
\* name is too long, one that fails every constraint.
CommentData ==
    { [name |-> CommentNameMaxLength,
       email |-> [n |-> EmailDefaultMaxLength, wellformed |-> TRUE], content |-> 2],
      [name |-> CommentNameMaxLength + 1,
       email |-> [n |-> 6, wellformed |-> TRUE], content |-> 1],
      [name |-> 0, email |-> [n |-> 6, wellformed |-> FALSE], content |-> 0] }

\* request.POST of a person submission: one at the length limits, one whose age
\* is not a number, one whose first name is too long, one that fails every
\* constraint.
PersonData ==
    { [fname |-> 1, lname |-> PersonNameMaxLength, age |-> <<"4", "2">>,
       email |-> [n |-> PersonEmailMaxLength, wellformed |-> TRUE], city |-> 1],
      [fname |-> 1, lname |-> 1, age |-> <<"a", "b">>,
       email |-> [n |-> 6, wellformed |-> TRUE], city |-> 1],
      [fname |-> PersonNameMaxLength + 1, lname |-> 1, age |-> <<"-", "7">>,
       email |-> [n |-> 6, wellformed |-> TRUE], city |-> 1],
      [fname |-> 0, lname |-> 0, age |-> <<"-">>,
       email |-> [n |-> PersonEmailMaxLength + 1, wellformed |-> FALSE], city |-> 0] }

-----------------------------------------------------------------------------
(* The object-relational mapper, as the views use it *)

\* The pk of an instance that has not been saved
None == 0

Http404 == [DoesNotExist |-> TRUE]

\* A model instance: the row of pk, as loaded
Instance(table, pk) == [pk |-> pk, row |-> table[pk]]

\* Mutant: a pk that names no row loads the first row instead
get_object_or_first(table, pk) ==
    IF pk \in DOMAIN table THEN Instance(table, pk)
    ELSE IF DOMAIN table # {}
         THEN Instance(table, CHOOSE m \in DOMAIN table : \A x \in DOMAIN table : m <= x)
         ELSE Http404

get_object_or_404(table, pk) ==
    IF pk \in DOMAIN table THEN Instance(table, pk) ELSE Http404

Min(S) == CHOOSE m \in S : \A x \in S : m <= x

\* A queryset, evaluated: each selected row once, in primary-key order.
RECURSIVE QuerySetOf(_, _)
QuerySetOf(table, pks) ==
    IF pks = {} THEN <<>>
    ELSE LET m == Min(pks)
         IN  <<Instance(table, m)>> \o QuerySetOf(table, pks \ {m})

\* Mutant: the list is filtered to the posts that have an image
objects_with_image(table) ==
    QuerySetOf(table, {k \in DOMAIN table : table[k].image = "image"})

\* Model.objects.all()
objects_all(table) == QuerySetOf(table, DOMAIN table)

\* blog.comments.all(): the rows of crudapp_comment whose blog_post is the blog's pk.
related_comments(table, blogPk) ==
    QuerySetOf(table, {c \in DOMAIN table : table[c].blog_post = blogPk})

\* Mutant: auto_now, the server's time at every save
auto_now_pre_save(value, add, now) == now

\* DateTimeField(auto_now_add=True).pre_save: the server's time when the row is
\* added, the instance's value otherwise.
auto_now_add_pre_save(value, add, now) == IF add THEN now ELSE value

\* A table with the row of pk added.
Inserted(table, pk, row) ==
    [k \in DOMAIN table \cup {pk} |-> IF k = pk THEN row ELSE table[k]]

\* A table without the rows of pks.
Without(table, pks) == [k \in DOMAIN table \ pks |-> table[k]]

\* An unsaved BlogPost()
NewBlogPost ==
    [pk |-> None,
     row |-> [title |-> 0, content |-> 0, author |-> 0, image |-> "none",
              published_date |-> None]]

\* Mutant: the form is built without instance=blog
BlogPostForm_without_instance(instance, data) ==
    [NewBlogPost EXCEPT !.row.title = data.title,
                        !.row.content = data.content,
                        !.row.author = data.author,
                        !.row.image = IF data.image = "image" THEN "image" ELSE @]

\* ModelForm._post_clean: the form's cleaned data written onto its instance.
\* published_date is not editable and is no field of the form; an image field
\* with no upload keeps the instance's file.
BlogPostForm_instance(instance, data) ==
    [instance EXCEPT !.row.title = data.title,
                     !.row.content = data.content,
                     !.row.author = data.author,
                     !.row.image = IF data.image = "image" THEN "image" ELSE @]

\* Whether Model.save() of the instance adds a row: it has no pk yet, or the
\* UPDATE of its pk matches no row.
SaveInserts(table, instance) == instance.pk = None \/ instance.pk \notin DOMAIN table

\* The pk Model.save() writes the instance under
SavedPk(instance, nextPk) == IF instance.pk = None THEN nextPk ELSE instance.pk

\* BlogPost.save(): UPDATE the row of the instance's pk; INSERT the instance
\* when it has no pk or the UPDATE matched no row.
BlogPost_save(table, instance, nextPk, now) ==
    IF SaveInserts(table, instance)
    THEN Inserted(table, SavedPk(instance, nextPk),
            [instance.row EXCEPT !.published_date = auto_now_add_pre_save(@, TRUE, now)])
    ELSE [table EXCEPT ![instance.pk] =
            [instance.row EXCEPT !.published_date = auto_now_add_pre_save(@, FALSE, now)]]

\* Mutant: the new comment is not attached to the blog
Comment_instance_unattached(data, blog) ==
    [pk |-> None,
     row |-> [blog_post |-> None, name |-> data.name, email |-> data.email,
              content |-> data.content, created_date |-> None]]

\* comment_form.save(commit=False); new_comment.blog_post = blog
Comment_instance(data, blog) ==
    [pk |-> None,
     row |-> [blog_post |-> blog.pk, name |-> data.name, email |-> data.email,
              content |-> data.content, created_date |-> None]]

\* Comment.save() of a new comment
Comment_save(table, instance, nextPk, now) ==
    Inserted(table, SavedPk(instance, nextPk),
        [instance.row EXCEPT !.created_date = auto_now_add_pre_save(@, TRUE, now)])

\* The foreign-key constraint of crudapp_comment.blog_post_id
ForeignKeyHolds(blogTable, instance) == instance.row.blog_post \in DOMAIN blogTable

\* Mutant: on_delete=DO_NOTHING, no comment is collected
cascade_none(table, blogPk) == {}

\* Mutant: the delete collects the comments of every post
cascade_all(table, blogPk) == DOMAIN table

\* ForeignKey(BlogPost, on_delete=CASCADE): the comments a delete of the post collects.
cascade_of(table, blogPk) == {c \in DOMAIN table : table[c].blog_post = blogPk}

\* PersonForm.save(commit=False): the cleaned data as a Persons instance
Persons_instance(data) ==
    [pk |-> None,
     row |-> [fname |-> data.fname, lname |-> data.lname,
              age |-> IntegerFieldToPython(data.age), email |-> data.email,
              city |-> data.city]]

-----------------------------------------------------------------------------
(* Responses *)

Render(view, template, context) ==
    [view |-> view, status |-> "render", template |-> template, context |-> context]

Redirect(view, to, args) ==
    [view |-> view, status |-> "redirect", to |-> to, args |-> args]

\* No response is on its way: the server takes the next request
Idle == [view |-> "none", status |-> "none"]

NotFound(view) == [view |-> view, status |-> "notfound"]

\* An IntegrityError the view does not catch
ServerError(view) == [view |-> view, status |-> "error"]

-----------------------------------------------------------------------------
(* views.py: what each view does once its first line has run *)

\* blog_list, lines 7-8
blog_list_respond ==
    /\ resp' = Render("blog_list", "persons/blog_list.html", [blogs |-> objects_all(blogs)])
    /\ UNCHANGED <<db, clock, deleted>>

\* blog_detail, lines 12-28; blog is the instance line 11 loaded
blog_detail_respond(method, blog, data) ==
    IF method = "POST" /\ CommentForm_is_valid(data)
    THEN LET new_comment == Comment_instance(data, blog)
         IN  IF ForeignKeyHolds(blogs, new_comment)
             THEN /\ RowsInserted < MaxRows
                  /\ comments' = Comment_save(comments, new_comment, nextCommentPk, clock)
                  /\ nextCommentPk' = nextCommentPk + 1
                  /\ clock' = clock + 1
                  /\ resp' = Redirect("blog_detail", "blog_detail", [pk |-> blog.pk])
                  /\ UNCHANGED <<blogs, persons, nextBlogPk, nextPersonPk, deleted>>
             ELSE /\ resp' = ServerError("blog_detail")
                  /\ UNCHANGED <<db, clock, deleted>>
    ELSE /\ resp' = Render("blog_detail", "persons/blog_detail.html",
                       [blog |-> blog,
                        comments |-> related_comments(comments, blog.pk),
                        comment_form |-> [errors |-> IF method = "POST"
                                                     THEN CommentForm_errors(data)
                                                     ELSE {}]])
         /\ UNCHANGED <<db, clock, deleted>>

\* create_blog, lines 32-39
create_blog_respond(method, data) ==
    IF method = "POST" /\ BlogPostForm_is_valid(data)
    THEN /\ RowsInserted < MaxRows
         /\ blogs' = BlogPost_save(blogs, BlogPostForm_instance(NewBlogPost, data),
                                   nextBlogPk, clock)
         /\ nextBlogPk' = nextBlogPk + 1
         /\ clock' = clock + 1
         /\ resp' = Redirect("create_blog", "blog_list", NoData)
         /\ UNCHANGED <<comments, persons, nextCommentPk, nextPersonPk, deleted>>
    ELSE /\ resp' = Render("create_blog", "persons/blog_form.html",
                       [form |-> [errors |-> IF method = "POST"
                                             THEN BlogPostForm_errors(data)
                                             ELSE {}]])
         /\ UNCHANGED <<db, clock, deleted>>

\* update_blog, lines 44-51; blog is the instance line 43 loaded
update_blog_respond(method, blog, data) ==
    IF method = "POST" /\ BlogPostForm_is_valid(data)
    THEN LET form_instance == BlogPostForm_instance(blog, data)
         IN  /\ SaveInserts(blogs, form_instance) => RowsInserted < MaxRows
             /\ blogs' = BlogPost_save(blogs, form_instance, nextBlogPk, clock)
             /\ clock' = IF SaveInserts(blogs, form_instance) THEN clock + 1 ELSE clock
             /\ resp' = Redirect("update_blog", "blog_list", NoData)
             /\ UNCHANGED <<comments, persons, nextBlogPk, nextCommentPk, nextPersonPk,
                            deleted>>
    ELSE /\ resp' = Render("update_blog", "persons/blog_form.html",
                       [form |-> [instance |-> blog,
                                  errors |-> IF method = "POST"
                                             THEN BlogPostForm_errors(data)
                                             ELSE {}]])
         /\ UNCHANGED <<db, clock, deleted>>

\* Mutant: the request method is not checked
delete_blog_respond_any_method(method, blog) ==
    /\ blogs' = Without(blogs, {blog.pk})
    /\ comments' = Without(comments, {c \in DOMAIN comments : comments[c].blog_post = blog.pk})
    /\ resp' = Redirect("delete_blog", "blog_list", NoData)
    /\ deleted' = deleted \cup {blog.pk}
    /\ UNCHANGED <<persons, nextBlogPk, nextCommentPk, nextPersonPk, clock>>

\* delete_blog, lines 56-59; blog.delete() removes the row of the blog's pk and,
\* in the same transaction, the comments that cascade from it.
delete_blog_respond(method, blog) ==
    IF method = "POST"
    THEN /\ blogs' = Without(blogs, {blog.pk})
         /\ comments' = Without(comments, cascade_of(comments, blog.pk))
         /\ resp' = Redirect("delete_blog", "blog_list", NoData)
         /\ deleted' = deleted \cup {blog.pk}
         /\ UNCHANGED <<persons, nextBlogPk, nextCommentPk, nextPersonPk, clock>>
    ELSE /\ resp' = Render("delete_blog", "persons/blog_confirm_delete.html", [blog |-> blog])
         /\ UNCHANGED <<db, clock, deleted>>

\* A view whose get_object_or_404 found no row
not_found(view) ==
    /\ resp' = NotFound(view)
    /\ UNCHANGED <<db, clock, deleted>>

-----------------------------------------------------------------------------
(* The views, each request handled from start to end *)

blog_list ==
    /\ resp = Idle
    /\ blog_list_respond
    /\ UNCHANGED inflight

blog_detail(method, pk, data) ==
    /\ resp = Idle
    /\ UNCHANGED inflight
    /\ LET blog == get_object_or_404(blogs, pk)
       IN  IF blog = Http404 THEN not_found("blog_detail")
           ELSE blog_detail_respond(method, blog, data)

create_blog(method, data) ==
    /\ resp = Idle
    /\ UNCHANGED inflight
    /\ create_blog_respond(method, data)

update_blog(method, pk, data) ==
    /\ resp = Idle
    /\ UNCHANGED inflight
    /\ LET blog == get_object_or_404(blogs, pk)
       IN  IF blog = Http404 THEN not_found("update_blog")
           ELSE update_blog_respond(method, blog, data)

delete_blog(method, pk) ==
    /\ resp = Idle
    /\ UNCHANGED inflight
    /\ LET blog == get_object_or_404(blogs, pk)
       IN  IF blog = Http404 THEN not_found("delete_blog")
           ELSE delete_blog_respond(method, blog)

\* The create view of the Persons slice: the shape of create_blog over PersonForm.
create_person(method, data) ==
    /\ resp = Idle
    /\ UNCHANGED <<inflight, deleted>>
    /\ IF method = "POST" /\ PersonForm_is_valid(data)
       THEN /\ RowsInserted < MaxRows
            /\ persons' = Inserted(persons, nextPersonPk, Persons_instance(data).row)
            /\ nextPersonPk' = nextPersonPk + 1
            /\ clock' = clock
            /\ resp' = Redirect("create_person", "person_list", NoData)
            /\ UNCHANGED <<blogs, comments, nextBlogPk, nextCommentPk>>
       ELSE /\ resp' = Render("create_person", "persons/person_form.html",
                          [form |-> [errors |-> IF method = "POST"
                                                THEN PersonForm_errors(data)
                                                ELSE {}]])
            /\ UNCHANGED <<db, clock>>

\* The client receives the response
receive ==
    /\ resp # Idle
    /\ resp' = Idle
    /\ UNCHANGED <<db, clock, deleted, inflight>>

-----------------------------------------------------------------------------
(* The specification of requests handled one after the other *)

EmptyTable == [k \in {} |-> 0]

Init ==
    /\ blogs = EmptyTable
    /\ comments = EmptyTable
    /\ persons = EmptyTable
    /\ nextBlogPk = 1
    /\ nextCommentPk = 1
    /\ nextPersonPk = 1
    /\ clock = 0
    /\ resp = Idle
    /\ confirmed = {}
    /\ deleted = {}
    /\ inflight = {}

\* The history is not recorded
NoHistory == UNCHANGED confirmed

Next ==
    \/ blog_list /\ NoHistory
    \/ \E pk \in PkInputs : blog_detail("GET", pk, NoData) /\ NoHistory
    \/ \E pk \in PkInputs, d \in CommentData : blog_detail("POST", pk, d) /\ NoHistory
    \/ create_blog("GET", NoData) /\ NoHistory
    \/ \E d \in BlogPostData : create_blog("POST", d) /\ NoHistory
    \/ \E pk \in PkInputs : update_blog("GET", pk, NoData) /\ NoHistory
    \/ \E pk \in PkInputs, d \in BlogPostData : update_blog("POST", pk, d) /\ NoHistory
    \/ \E pk \in PkInputs : delete_blog("GET", pk) /\ NoHistory
    \/ \E pk \in PkInputs : delete_blog("POST", pk) /\ NoHistory
    \/ create_person("GET", NoData) /\ NoHistory
    \/ \E d \in PersonData : create_person("POST", d) /\ NoHistory
    \/ receive /\ NoHistory

Spec == Init /\ [][Next]_vars

\* The same requests, with the confirmation pages served recorded: a response
\* that renders the confirmation page of a post records that post, and a post
\* that is no longer stored is forgotten.
ConfirmationServed(response) ==
    IF response.view = "delete_blog" /\ response.status = "render"
    THEN {response.context.blog.pk}
    ELSE {}

History == confirmed' = (confirmed \cup ConfirmationServed(resp')) \cap DOMAIN blogs'

NextHistory ==
    \/ blog_list /\ History
    \/ \E pk \in PkInputs : blog_detail("GET", pk, NoData) /\ History
    \/ \E pk \in PkInputs, d \in CommentData : blog_detail("POST", pk, d) /\ History
    \/ create_blog("GET", NoData) /\ History
    \/ \E d \in BlogPostData : create_blog("POST", d) /\ History
    \/ \E pk \in PkInputs : update_blog("GET", pk, NoData) /\ History
    \/ \E pk \in PkInputs, d \in BlogPostData : update_blog("POST", pk, d) /\ History
    \/ \E pk \in PkInputs : delete_blog("GET", pk) /\ History
    \/ \E pk \in PkInputs : delete_blog("POST", pk) /\ History
    \/ create_person("GET", NoData) /\ History
    \/ \E d \in PersonData : create_person("POST", d) /\ History
    \/ receive /\ History

SpecHistory == Init /\ [][NextHistory]_vars

-----------------------------------------------------------------------------
(* The specification of requests that interleave: a view that loads its post   *)
(* and then writes may have the writes of other requests between the two.      *)

InFlight(view, method, blog, data) ==
    [view |-> view, method |-> method, blog |-> blog, data |-> data]

\* Line 11, 43 or 55 of a view: the post is loaded, or the request ends not found.
load(view, method, pk, data) ==
    /\ resp = Idle
    /\ LET blog == get_object_or_404(blogs, pk)
       IN  IF blog = Http404
           THEN /\ not_found(view)
                /\ UNCHANGED inflight
           ELSE /\ Cardinality(inflight) < MaxInFlight
                /\ inflight' = inflight \cup {InFlight(view, method, blog, data)}
                /\ UNCHANGED <<db, clock, resp, deleted>>

blog_detail_load(method, pk, data) == load("blog_detail", method, pk, data)

update_blog_load(method, pk, data) == load("update_blog", method, pk, data)

delete_blog_load(method, pk) == load("delete_blog", method, pk, NoData)

\* The rest of the view, run on the tables as they are by then
blog_detail_finish(r) ==
    /\ resp = Idle
    /\ r.view = "blog_detail"
    /\ inflight' = inflight \ {r}
    /\ blog_detail_respond(r.method, r.blog, r.data)

update_blog_finish(r) ==
    /\ resp = Idle
    /\ r.view = "update_blog"
    /\ inflight' = inflight \ {r}
    /\ update_blog_respond(r.method, r.blog, r.data)

delete_blog_finish(r) ==
    /\ resp = Idle
    /\ r.view = "delete_blog"
    /\ inflight' = inflight \ {r}
    /\ delete_blog_respond(r.method, r.blog)

\* A request runs with no other request inside it, as in Next, or loads its post,
\* lets other requests run, and finishes.
NextConc ==
    \/ \E d \in BlogPostData : create_blog("POST", d) /\ NoHistory
    \/ \E pk \in PkInputs, d \in CommentData : blog_detail("POST", pk, d) /\ NoHistory
    \/ \E pk \in PkInputs, d \in BlogPostData : update_blog("POST", pk, d) /\ NoHistory
    \/ \E pk \in PkInputs : delete_blog("POST", pk) /\ NoHistory
    \/ \E pk \in PkInputs, d \in CommentData : blog_detail_load("POST", pk, d) /\ NoHistory
    \/ \E pk \in PkInputs, d \in BlogPostData : update_blog_load("POST", pk, d) /\ NoHistory
    \/ \E pk \in PkInputs : delete_blog_load("POST", pk) /\ NoHistory
    \/ \E r \in inflight : blog_detail_finish(r) /\ NoHistory
    \/ \E r \in inflight : update_blog_finish(r) /\ NoHistory
    \/ \E r \in inflight : delete_blog_finish(r) /\ NoHistory
    \/ receive /\ NoHistory

SpecConc == Init /\ [][NextConc]_vars

-----------------------------------------------------------------------------
(* Properties *)

\* The rows and sequences of every table are as before the step
StoreUnchanged == UNCHANGED db

\* The comments of a post
CommentsOf(table, blogPk) == {c \in DOMAIN table : table[c].blog_post = blogPk}

\* Every stored comment's blog_post names a stored post
CommentsOwned == \A c \in DOMAIN comments : comments[c].blog_post \in DOMAIN blogs

\* C1: in every state the requests reach, every stored comment's blog_post names
\* a stored post; a delete_blog POST of a stored post p removes p and every
\* comment of p, and removes or changes no comment of another post.
C1_CascadeKeepsCommentsOwned ==
    /\ CommentsOwned
    /\ [][ /\ CommentsOwned'
           /\ \A p \in PkInputs :
                (delete_blog("POST", p) /\ p \in DOMAIN blogs) =>
                    /\ p \notin DOMAIN blogs'
                    /\ CommentsOf(comments', p) = {}
                    /\ DOMAIN comments' = DOMAIN comments \ CommentsOf(comments, p)
                    /\ \A c \in DOMAIN comments' : comments'[c] = comments[c]
                    /\ \A q \in DOMAIN blogs \ {p} :
                         q \in DOMAIN blogs' /\ blogs'[q] = blogs[q]
         ]_vars

\* A delete has removed a post with a comment while another post keeps its comment
C1_Witness ==
    /\ resp = Redirect("delete_blog", "blog_list", NoData)
    /\ DOMAIN comments # {}
    /\ Cardinality(DOMAIN comments) < nextCommentPk - 1
    /\ DOMAIN blogs # {}

\* C2: a valid comment POST to blog_detail of a stored post p adds exactly one
\* comment, attached to p and holding the submitted values, changes no other
\* comment and no post, and redirects to the detail page of p.
C2_CommentPostAddsOne ==
    [][ \A p \in PkInputs, d \in CommentData :
          (blog_detail("POST", p, d) /\ p \in DOMAIN blogs /\ CommentForm_is_valid(d)) =>
              /\ Cardinality(CommentsOf(comments', p)) = Cardinality(CommentsOf(comments, p)) + 1
              /\ Cardinality(DOMAIN comments') = Cardinality(DOMAIN comments) + 1
              /\ \A q \in DOMAIN blogs \ {p} : CommentsOf(comments', q) = CommentsOf(comments, q)
              /\ \A c \in DOMAIN comments : c \in DOMAIN comments' /\ comments'[c] = comments[c]
              /\ \A c \in DOMAIN comments' \ DOMAIN comments :
                    /\ comments'[c].blog_post = p
                    /\ comments'[c].name = d.name
                    /\ comments'[c].email = d.email
                    /\ comments'[c].content = d.content
              /\ blogs' = blogs
              /\ nextBlogPk' = nextBlogPk
              /\ resp' = Redirect("blog_detail", "blog_detail", [pk |-> p])
      ]_vars

\* A comment was just added to a post that is not the first one, and another
\* post has a comment of its own
C2_Witness ==
    /\ resp.view = "blog_detail"
    /\ resp.status = "redirect"
    /\ resp.args.pk > 1
    /\ CommentsOf(comments, resp.args.pk) # {}
    /\ \E q \in DOMAIN blogs \ {resp.args.pk} : CommentsOf(comments, q) # {}

\* The response of a view to a pk that names no stored post
NotFoundAndUnchanged(view) ==
    /\ resp' = NotFound(view)
    /\ StoreUnchanged

\* C3: a GET or POST to update_blog, delete_blog or blog_detail with a pk that
\* names no stored post is answered not found, and no row of any table is
\* created, changed or removed.
C3_MissingPkIsNotFound ==
    [][ \A p \in PkInputs :
          p \notin DOMAIN blogs =>
              /\ blog_detail("GET", p, NoData) => NotFoundAndUnchanged("blog_detail")
              /\ \A d \in CommentData :
                    blog_detail("POST", p, d) => NotFoundAndUnchanged("blog_detail")
              /\ update_blog("GET", p, NoData) => NotFoundAndUnchanged("update_blog")
              /\ \A d \in BlogPostData :
                    update_blog("POST", p, d) => NotFoundAndUnchanged("update_blog")
              /\ \A m \in {"GET", "POST"} :
                    delete_blog(m, p) => NotFoundAndUnchanged("delete_blog")
      ]_vars

\* A request for a pk that names no post was answered while posts and comments are stored
C3_Witness ==
    /\ resp.status = "notfound"
    /\ resp.view \in {"update_blog", "delete_blog", "blog_detail"}
    /\ deleted # {}
    /\ DOMAIN blogs # {}
    /\ DOMAIN comments # {}

\* C4: an update_blog POST with valid data for a stored post k writes the
\* submitted values to k and changes nothing else: the same pks are stored, every
\* other post keeps every field value, no pk is handed out, and no comment of
\* any post changes.
C4_UpdateChangesOnlyThatPost ==
    [][ \A k \in PkInputs, d \in BlogPostData :
          (update_blog("POST", k, d) /\ k \in DOMAIN blogs /\ BlogPostForm_is_valid(d)) =>
              /\ DOMAIN blogs' = DOMAIN blogs
              /\ \A j \in DOMAIN blogs \ {k} : blogs'[j] = blogs[j]
              /\ blogs'[k].title = d.title
              /\ blogs'[k].content = d.content
              /\ blogs'[k].author = d.author
              /\ nextBlogPk' = nextBlogPk
              /\ comments' = comments
              /\ nextCommentPk' = nextCommentPk
              /\ persons' = persons
      ]_vars

\* A post created with an image was just updated to other values, beside another
\* post and a comment
C4_Witness ==
    /\ resp = Redirect("update_blog", "blog_list", NoData)
    /\ \E k \in DOMAIN blogs : blogs[k].image = "image" /\ blogs[k].title = 1
    /\ Cardinality(DOMAIN blogs) >= 2
    /\ DOMAIN comments # {}

\* The field constraints of section 3, as a submission fails them
BlogPostFails(d) ==
    \/ d.title = 0 \/ d.title > TitleMaxLength
    \/ d.content = 0
    \/ d.author = 0 \/ d.author > AuthorMaxLength
    \/ d.image = "notimage"

CommentFails(d) ==
    \/ d.name = 0 \/ d.name > CommentNameMaxLength
    \/ d.email.n = 0 \/ ~d.email.wellformed
    \/ d.content = 0

\* A text with a character that is neither a digit nor a sign
NonNumeric(text) == \E i \in 1..Len(text) : ~IsDigit(text[i]) /\ text[i] \notin {"-", "+"}

PersonFails(d) ==
    \/ NonNumeric(d.age) \/ d.age = <<>>
    \/ d.fname = 0 \/ d.fname > PersonNameMaxLength
    \/ d.lname = 0 \/ d.lname > PersonNameMaxLength
    \/ d.city = 0 \/ d.city > PersonNameMaxLength
    \/ d.email.n = 0 \/ d.email.n > PersonEmailMaxLength \/ ~d.email.wellformed

\* The response that shows a form again, with the errors of its fields
FormShownAgain(view, template) ==
    /\ resp'.view = view
    /\ resp'.status = "render"
    /\ resp'.template = template

\* C5: a POST whose values fail a field constraint (a person's age that is not a
\* number, a text that is empty or too long, an upload that is no image, a
\* malformed e-mail address) to create_blog, update_blog, blog_detail or the
\* person create view stores nothing and changes nothing stored, and the response
\* renders the form it came from, with errors, and is no redirect.
C5_InvalidPostIsRejected ==
    [][ /\ \A d \in BlogPostData :
             (create_blog("POST", d) /\ BlogPostFails(d)) =>
                 /\ StoreUnchanged
                 /\ FormShownAgain("create_blog", "persons/blog_form.html")
                 /\ resp'.context.form.errors # {}
        /\ \A k \in PkInputs, d \in BlogPostData :
             (update_blog("POST", k, d) /\ k \in DOMAIN blogs /\ BlogPostFails(d)) =>
                 /\ StoreUnchanged
                 /\ FormShownAgain("update_blog", "persons/blog_form.html")
                 /\ resp'.context.form.errors # {}
        /\ \A k \in PkInputs, d \in CommentData :
             (blog_detail("POST", k, d) /\ k \in DOMAIN blogs /\ CommentFails(d)) =>
                 /\ StoreUnchanged
                 /\ FormShownAgain("blog_detail", "persons/blog_detail.html")
                 /\ resp'.context.comment_form.errors # {}
        /\ \A d \in PersonData :
             (create_person("POST", d) /\ PersonFails(d)) =>
                 /\ StoreUnchanged
                 /\ FormShownAgain("create_person", "persons/person_form.html")
                 /\ resp'.context.form.errors # {}
      ]_vars

\* A form with errors was just shown again while rows of each table are stored
C5_Witness ==
    /\ resp.status = "render"
    /\ resp.view = "update_blog"
    /\ resp.context.form.errors = {"title"}
    /\ DOMAIN persons # {}
    /\ DOMAIN comments # {}

\* The person form showed the age error of a submission whose age is no number
C5_WitnessAge ==
    /\ resp.status = "render"
    /\ resp.view = "create_person"
    /\ resp.context.form.errors = {"age"}
    /\ DOMAIN persons # {}

\* C6: a create_blog POST with valid data adds exactly one post, under a pk that
\* no stored post has and no deleted post had, holding the submitted values, and
\* changes no stored post;
\* blog_list lists every stored post exactly once with its stored values, and
\* nothing else.
C6_CreatedThenListedOnce ==
    [][ /\ \A d \in BlogPostData :
             (create_blog("POST", d) /\ BlogPostForm_is_valid(d)) =>
                 /\ Cardinality(DOMAIN blogs') = Cardinality(DOMAIN blogs) + 1
                 /\ DOMAIN blogs \subseteq DOMAIN blogs'
                 /\ \A j \in DOMAIN blogs : blogs'[j] = blogs[j]
                 /\ \A k \in DOMAIN blogs' \ DOMAIN blogs :
                       /\ k \notin deleted
                       /\ blogs'[k].title = d.title
                       /\ blogs'[k].content = d.content
                       /\ blogs'[k].author = d.author
                 /\ resp' = Redirect("create_blog", "blog_list", NoData)
        /\ blog_list =>
             LET list == resp'.context.blogs
             IN  /\ resp'.status = "render"
                 /\ blogs' = blogs
                 /\ \A k \in DOMAIN blogs :
                       Cardinality({i \in 1..Len(list) : list[i].pk = k}) = 1
                 /\ \A i \in 1..Len(list) :
                       list[i].pk \in DOMAIN blogs /\ list[i].row = blogs[list[i].pk]
      ]_vars

\* The list was just served with two posts, one created after a delete
C6_Witness ==
    /\ resp.view = "blog_list"
    /\ resp.status = "render"
    /\ Len(resp.context.blogs) = 2
    /\ deleted # {}
    /\ \E i \in 1..2 : \A k \in deleted : resp.context.blogs[i].pk > k

\* C7: a post's published_date is the server's time when the post is created,
\* whatever date the form data carries, and no request changes it while the post
\* is stored.
C7_PublishedDateImmutable ==
    [][ /\ \A k \in DOMAIN blogs \cap DOMAIN blogs' :
             blogs'[k].published_date = blogs[k].published_date
        /\ \A k \in DOMAIN blogs' \ DOMAIN blogs :
             blogs'[k].published_date = clock
      ]_vars

\* A post was just updated at a later time than its creation
C7_Witness ==
    /\ resp = Redirect("update_blog", "blog_list", NoData)
    /\ \E k \in DOMAIN blogs :
          /\ blogs[k].image = "image" /\ blogs[k].title = 1
          /\ blogs[k].published_date + 1 < clock

\* A post leaves the table only in a delete_blog POST for its pk
RemovedOnlyByDeletePost ==
    \A k \in DOMAIN blogs : k \notin DOMAIN blogs' => delete_blog("POST", k)

\* A delete_blog GET for a stored post renders its confirmation page and changes
\* nothing stored
GetOnlyConfirms ==
    \A k \in DOMAIN blogs :
        delete_blog("GET", k) =>
            /\ StoreUnchanged
            /\ resp' = Render("delete_blog", "persons/blog_confirm_delete.html",
                              [blog |-> Instance(blogs, k)])

\* C8, as claimed: a post k is removed only by a delete_blog POST for k, a
\* delete_blog GET only renders the confirmation page and leaves the post stored,
\* and every removal of k comes after a confirmation page served for k.
C8_RemovalFollowsConfirmation ==
    [][ /\ RemovedOnlyByDeletePost
        /\ GetOnlyConfirms
        /\ \A k \in DOMAIN blogs : k \notin DOMAIN blogs' => k \in confirmed
      ]_vars

\* C8, amended: a post k is removed only by a delete_blog POST for k, and a
\* delete_blog GET only renders the confirmation page and leaves the post stored;
\* the POST removes the post whether or not a confirmation page was served.
C8_RemovedOnlyByDeletePost ==
    [][ /\ RemovedOnlyByDeletePost
        /\ GetOnlyConfirms
        /\ \A k \in DOMAIN blogs : delete_blog("POST", k) => k \notin DOMAIN blogs'
      ]_vars

\* A post was just removed while the confirmation page of another, stored post
\* has been served
C8_Witness ==
    /\ resp = Redirect("delete_blog", "blog_list", NoData)
    /\ deleted # {}
    /\ confirmed # {}

\* C9: no request changes a stored comment's blog_post, name, email, content or
\* created_date; a comment leaves the table only in the step that removes the
\* post it belongs to; and a comment enters the table only in a blog_detail POST.
C9_CommentsAreNeverEdited ==
    [][ /\ \A c \in DOMAIN comments \cap DOMAIN comments' : comments'[c] = comments[c]
        /\ \A c \in DOMAIN comments \ DOMAIN comments' :
             /\ comments[c].blog_post \in DOMAIN blogs \ DOMAIN blogs'
             /\ delete_blog("POST", comments[c].blog_post)
        /\ DOMAIN comments' \ DOMAIN comments # {} =>
             \E p \in PkInputs, d \in CommentData : blog_detail("POST", p, d)
      ]_vars

\* A post was just deleted while the comment of another post, made before that
\* post was updated, is still stored
C9_Witness ==
    /\ resp = Redirect("delete_blog", "blog_list", NoData)
    /\ \E c \in DOMAIN comments :
          LET p == comments[c].blog_post
          IN  blogs[p].image = "image" /\ blogs[p].title = 1

\* C10: once a delete_blog POST for post k has completed, no post with pk k is
\* stored and no comment with blog_post k is stored, however the requests for k
\* interleave.
C10_DeleteIsFinal ==
    \A k \in deleted : k \notin DOMAIN blogs /\ CommentsOf(comments, k) = {}

\* The comment half of C10 alone: no comment is stored for a deleted post
C10_NoCommentOfDeletedPost ==
    \A k \in deleted : k \notin DOMAIN blogs => CommentsOf(comments, k) = {}

=============================================================================
